---- MODULE Spec2Model ----
(***************************************************************************)
(* School Finance client (src/frontend.js, component SchoolFinanceApp) as  *)
(* a state machine: the React state of the component, the browser's        *)
(* localStorage, the HTTP requests in flight, and the finance service the  *)
(* requests are sent to.  Every async handler is two actions: its          *)
(* synchronous part up to the first await (the request is issued), and its *)
(* continuation once the response has been delivered.  The finance service *)
(* is not part of src/frontend.js; its responses are modelled from the     *)
(* specification's contracts (sections 3 and 4).                           *)
(***************************************************************************)
EXTENDS Integers, Sequences, FiniteSets, TLC

VARIABLES
    token,              \* useState(localStorage.getItem('token'))
    user,               \* useState(null)
    activeTab,          \* useState('dashboard')
    loading,            \* useState(false)
    error,              \* useState('')
    success,            \* useState('')
    loginData,          \* useState({username: '', password: ''})
    feePayment,         \* the fee payment form
    studentSearchId,    \* useState('')
    studentDetails,     \* useState(null)
    feeSummary,         \* useState(null)
    summaryStudentId,   \* useState('')
    summaryYearId,      \* useState('')
    transactionHistory, \* useState([])
    historyStartDate,   \* useState(today)
    historyEndDate,     \* useState(today)
    newUser,            \* the create-user form
    localStorage,       \* the browser's storage: keys 'token' and 'user'
    inflight,           \* requests issued whose handler has not finished
    sent,               \* number of HTTP requests issued so far
    accepted,           \* number of user actions that passed their guard
    limit,              \* the number of requests this run may issue
    transactions,       \* finance service: the recorded transactions
    users               \* finance service: the registered users, in order

vars == <<token, user, activeTab, loading, error, success, loginData,
          feePayment, studentSearchId, studentDetails, feeSummary,
          summaryStudentId, summaryYearId, transactionHistory,
          historyStartDate, historyEndDate, newUser, localStorage,
          inflight, sent, accepted, limit, transactions, users>>


-----------------------------------------------------------------------------
(* Bounds of the model.                                                    *)

\* The number of HTTP requests one run of the client issues.
MaxRequests == 2
\* The same, for the runs checked for progress.
MaxLiveRequests == 1
\* The same, for the runs that query a service already holding transactions.
MaxHistoryRequests == 1

-----------------------------------------------------------------------------
(* JavaScript values.  A JSON value that the code does not know to be a    *)
(* string (a token, an error detail) is a tagged record; the messages the  *)
(* component holds (error, success) are strings.                           *)

JStr(s) == [t |-> "string", v |-> s]
JNull == [t |-> "null", v |-> ""]
JUndefined == [t |-> "undefined", v |-> ""]
\* FastAPI's body for a request that fails validation (status 422): detail
\* is an array of objects, one per offending field.
JValidationErrors == [t |-> "array", v |-> "loc,msg,type"]

\* JavaScript's truthiness of a value.
Truthy(x) ==
    CASE x.t = "string" -> x.v # ""
      [] x.t = "array" -> TRUE
      [] OTHER -> FALSE

\* String(x), as done by a template literal, by new Error(x) and by
\* localStorage.setItem(k, x).
JsString(x) ==
    CASE x.t = "string" -> x.v
      [] x.t = "null" -> "null"
      [] x.t = "undefined" -> "undefined"
      [] x.t = "array" -> "[object Object]"

NoAuth == "<no Authorization header>"

\* localStorage.getItem: the stored string, or null.
Absent == "<absent>"
GetItem(storage, k) == IF storage[k] = Absent THEN JNull ELSE JStr(storage[k])

-----------------------------------------------------------------------------
(* The data the runs draw from.                                            *)

Tokens == {"tokA", "tokB"}
Today == "2024-06-02"
DateInputs == {"2024-06-01", "2024-06-02"}
Tabs == {"dashboard", "fee-payment", "student-details", "fee-summary",
         "transactions", "create-user"}

NoUser == [username |-> "<null>"]
UserObjects == {[username |-> "admin"], [username |-> "clerk"]}

\* JSON.stringify of a user object, and JSON.parse of a stored string.
JsonStringify(u) == "{\"username\":\"" \o u.username \o "\"}"
IsJson(s) == \E u \in UserObjects : JsonStringify(u) = s
JsonParse(s) == CHOOSE u \in UserObjects : JsonStringify(u) = s

BlankLogin == [username |-> "", password |-> ""]
LoginForms == {BlankLogin, [username |-> "admin", password |-> "secret"]}

BlankFeePayment ==
    [student_id |-> "", amount |-> "", transaction_date |-> Today,
     payment_method |-> "Cash", reference_details |-> "", description |-> "",
     year_id |-> ""]
FeePaymentForms ==
    {BlankFeePayment,
     [BlankFeePayment EXCEPT !.student_id = "1", !.amount = "80",
                             !.year_id = "2024"]}

BlankNewUser ==
    [username |-> "", password |-> "", full_name |-> "",
     role |-> "Teaching Staff"]
NewUserForms ==
    {BlankNewUser,
     [BlankNewUser EXCEPT !.username = "bob", !.password = "pw",
                          !.full_name = "Bob"]}

\* The finance service's users, from the specification.  Section 3: a User
\* has a unique username, a hashed password, a full name and a role;
\* section 4.6: signup creates one from the submitted form.
Hashed(p) == "hash(" \o p \o ")"
UserRecord(us, body) ==
    [user_id |-> Len(us) + 1, username |-> body.username,
     password |-> Hashed(body.password), full_name |-> body.full_name,
     role |-> body.role]
Usernames(us) == {us[i].username : i \in DOMAIN us}
InitialUsers ==
    <<UserRecord(<<>>, [username |-> "admin", password |-> "secret",
                        full_name |-> "Administrator", role |-> "Admin"])>>

StudentIdInputs == {"", "1"}
YearIdInputs == {"", "2024"}

\* parseInt and parseFloat on the strings the number inputs hold (and the
\* service's reading of an id in a path); NaN for the empty string.
NaN == 0 - 1
ParseNumber(s) ==
    CASE s = "1" -> 1
      [] s = "80" -> 80
      [] s = "2024" -> 2024
      [] OTHER -> NaN

-----------------------------------------------------------------------------
(* Initial state: the component is mounted over some browser storage and   *)
(* the effect on [token] has run once (fetchUserInfo).                     *)

InitialStorages ==
    {[token |-> t, user |-> u] :
        t \in {Absent, "tokA"},
        u \in {Absent, JsonStringify([username |-> "clerk"]), "{not json"}}

\* handleLogout's assignments to token, user and storage.
StorageKeepingToken == [token |-> "tokA", user |-> Absent]
StorageKeepingUser ==
    [token |-> Absent, user |-> JsonStringify([username |-> "admin"])]
LoggedOutStorage == [token |-> Absent, user |-> Absent]

\* fetchUserInfo, run by the effect when token is truthy: the state
\* <<token, user, localStorage>> it leaves.
FetchUserInfo(tok, usr, storage) ==
    IF ~Truthy(tok) THEN <<tok, usr, storage>>
    ELSE IF storage.user = Absent THEN <<tok, usr, storage>>
    ELSE IF IsJson(storage.user)
         THEN <<tok, JsonParse(storage.user), storage>>
         ELSE <<JNull, NoUser, LoggedOutStorage>>

\* The state after the component has mounted, with the service holding the
\* transactions txs and the requests of a run limited to n.
InitFrom(n, txs) ==
    \E st \in InitialStorages :
        LET m == FetchUserInfo(GetItem(st, "token"), NoUser, st) IN
        /\ token = m[1]
        /\ user = m[2]
        /\ localStorage = m[3]
        /\ activeTab = "dashboard"
        /\ loading = FALSE
        /\ error = ""
        /\ success = ""
        /\ loginData = BlankLogin
        /\ feePayment = BlankFeePayment
        /\ studentSearchId = ""
        /\ studentDetails = JNull
        /\ feeSummary = JNull
        /\ summaryStudentId = ""
        /\ summaryYearId = ""
        /\ transactionHistory = <<>>
        /\ historyStartDate = Today
        /\ historyEndDate = Today
        /\ newUser = BlankNewUser
        /\ inflight = {}
        /\ sent = 0
        /\ accepted = 0
        /\ limit = n
        /\ transactions = txs
        /\ users = InitialUsers

InitWith(n) == InitFrom(n, <<>>)

Init == InitWith(MaxRequests)
LiveInit == InitWith(MaxLiveRequests)

\* The service already holds two transactions, of two different days,
\* recorded through another session, when the component mounts.
PriorTransactions ==
    <<[transaction_id |-> 1, transaction_type |-> "Fee Payment",
       amount |-> 30, transaction_date |-> "2024-06-01",
       description |-> "", student_id |-> 1, year_id |-> 2023,
       recorded_by |-> "Bearer tokB"],
      [transaction_id |-> 2, transaction_type |-> "Fee Payment",
       amount |-> 20, transaction_date |-> "2024-06-02",
       description |-> "", student_id |-> 1, year_id |-> 2023,
       recorded_by |-> "Bearer tokB"]>>
SeededInit == InitFrom(MaxRequests, PriorTransactions)
HistoryInit == InitFrom(MaxHistoryRequests, PriorTransactions)

-----------------------------------------------------------------------------
(* What is rendered and enabled.                                           *)

\* if (!token) return <the login form>; otherwise the authenticated view.
LoginView == ~Truthy(token)
AuthView == Truthy(token)

\* A submit button that is never disabled.
SubmitAlwaysEnabled == TRUE

\* disabled={loading} on every submit button.
SubmitEnabled == ~loading

\* The browser refuses to submit a form while a required input is empty.
LoginFormValid == loginData.username # "" /\ loginData.password # ""
FeePaymentFormValid ==
    /\ feePayment.student_id # ""
    /\ feePayment.amount # ""
    /\ feePayment.transaction_date # ""
    /\ feePayment.payment_method # ""
    /\ feePayment.year_id # ""
NewUserFormValid ==
    /\ newUser.username # ""
    /\ newUser.password # ""
    /\ newUser.full_name # ""
    /\ newUser.role # ""

-----------------------------------------------------------------------------
(* Requests.                                                               *)

NoResponse == [kind |-> "none", data |-> [detail |-> JUndefined]]

\* apiCall without the Authorization header.
NoAuthorization(tok) == NoAuth

\* apiCall's headers: ...(token && {'Authorization': `Bearer ${token}`}).
ApiCallAuthorization(tok) ==
    IF Truthy(tok) THEN "Bearer " \o JsString(tok) ELSE NoAuth

Request(op, auth, payload) ==
    [id |-> sent + 1, op |-> op, auth |-> auth, payload |-> payload,
     stage |-> "sent", resp |-> NoResponse]

\* apiCall(endpoint, options) up to its await: the request it builds.
ApiCall(op, payload) == Request(op, ApiCallAuthorization(token), payload)

\* A fetch that sends the request a second time.
FetchWithRetry(r) ==
    /\ inflight' = inflight \cup {r}
    /\ sent' = sent + 2

\* fetch(url, config): one request goes out.
Fetch(r) ==
    /\ inflight' = inflight \cup {r}
    /\ sent' = sent + 1

\* A body that carries an idempotency key besides the form's fields.
FeePaymentBodyWithKey(form) ==
    [k \in DOMAIN form \cup {"idempotency_key"} |->
        CASE k = "idempotency_key" -> "key"
          [] k \in {"amount", "student_id", "year_id"} -> ParseNumber(form[k])
          [] OTHER -> form[k]]

\* The body handleFeePayment posts.
FeePaymentBody(form) ==
    [form EXCEPT !.amount = ParseNumber(form.amount),
                 !.student_id = ParseNumber(form.student_id),
                 !.year_id = ParseNumber(form.year_id)]

-----------------------------------------------------------------------------
(* User input: onChange handlers, tabs, logout.                            *)

\* setLoginData({...loginData, <field>: e.target.value}), keystrokes taken
\* together: the form goes from one content to another.
SetLoginData ==
    /\ LoginView
    /\ \E f \in LoginForms : f # loginData /\ loginData' = f
    /\ UNCHANGED <<token, user, activeTab, loading, error, success,
                   feePayment, studentSearchId, studentDetails, feeSummary,
                   summaryStudentId, summaryYearId, transactionHistory,
                   historyStartDate, historyEndDate, newUser, localStorage,
                   inflight, sent, accepted, limit, transactions, users>>

SetFeePayment ==
    /\ AuthView /\ activeTab = "fee-payment"
    /\ \E f \in FeePaymentForms : f # feePayment /\ feePayment' = f
    /\ UNCHANGED <<token, user, activeTab, loading, error, success,
                   loginData, studentSearchId, studentDetails, feeSummary,
                   summaryStudentId, summaryYearId, transactionHistory,
                   historyStartDate, historyEndDate, newUser, localStorage,
                   inflight, sent, accepted, limit, transactions, users>>

SetStudentSearchId ==
    /\ AuthView /\ activeTab = "student-details"
    /\ \E v \in StudentIdInputs : v # studentSearchId /\ studentSearchId' = v
    /\ UNCHANGED <<token, user, activeTab, loading, error, success,
                   loginData, feePayment, studentDetails, feeSummary,
                   summaryStudentId, summaryYearId, transactionHistory,
                   historyStartDate, historyEndDate, newUser, localStorage,
                   inflight, sent, accepted, limit, transactions, users>>

SetSummaryStudentId ==
    /\ AuthView /\ activeTab = "fee-summary"
    /\ \E v \in StudentIdInputs : v # summaryStudentId /\ summaryStudentId' = v
    /\ UNCHANGED <<token, user, activeTab, loading, error, success,
                   loginData, feePayment, studentSearchId, studentDetails,
                   feeSummary, summaryYearId, transactionHistory,
                   historyStartDate, historyEndDate, newUser, localStorage,
                   inflight, sent, accepted, limit, transactions, users>>

SetSummaryYearId ==
    /\ AuthView /\ activeTab = "fee-summary"
    /\ \E v \in YearIdInputs : v # summaryYearId /\ summaryYearId' = v
    /\ UNCHANGED <<token, user, activeTab, loading, error, success,
                   loginData, feePayment, studentSearchId, studentDetails,
                   feeSummary, summaryStudentId, transactionHistory,
                   historyStartDate, historyEndDate, newUser, localStorage,
                   inflight, sent, accepted, limit, transactions, users>>

SetHistoryStartDate ==
    /\ AuthView /\ activeTab = "transactions"
    /\ \E d \in DateInputs : d # historyStartDate /\ historyStartDate' = d
    /\ UNCHANGED <<token, user, activeTab, loading, error, success,
                   loginData, feePayment, studentSearchId, studentDetails,
                   feeSummary, summaryStudentId, summaryYearId,
                   transactionHistory, historyEndDate, newUser, localStorage,
                   inflight, sent, accepted, limit, transactions, users>>

SetHistoryEndDate ==
    /\ AuthView /\ activeTab = "transactions"
    /\ \E d \in DateInputs : d # historyEndDate /\ historyEndDate' = d
    /\ UNCHANGED <<token, user, activeTab, loading, error, success,
                   loginData, feePayment, studentSearchId, studentDetails,
                   feeSummary, summaryStudentId, summaryYearId,
                   transactionHistory, historyStartDate, newUser,
                   localStorage, inflight, sent, accepted, limit, transactions,
                   users>>

SetNewUser ==
    /\ AuthView /\ activeTab = "create-user"
    /\ \E f \in NewUserForms : f # newUser /\ newUser' = f
    /\ UNCHANGED <<token, user, activeTab, loading, error, success,
                   loginData, feePayment, studentSearchId, studentDetails,
                   feeSummary, summaryStudentId, summaryYearId,
                   transactionHistory, historyStartDate, historyEndDate,
                   localStorage, inflight, sent, accepted, limit, transactions,
                   users>>

\* onClick={() => setActiveTab(tab.id)}
SetActiveTab ==
    /\ AuthView
    /\ \E t \in Tabs : t # activeTab /\ activeTab' = t
    /\ UNCHANGED <<token, user, loading, error, success, loginData,
                   feePayment, studentSearchId, studentDetails, feeSummary,
                   summaryStudentId, summaryYearId, transactionHistory,
                   historyStartDate, historyEndDate, newUser, localStorage,
                   inflight, sent, accepted, limit, transactions, users>>

\* handleLogout; the effect on [token] then finds token null and does nothing.
HandleLogout ==
    /\ AuthView
    /\ token' = JNull
    /\ user' = NoUser
    /\ localStorage' = LoggedOutStorage
    /\ activeTab' = "dashboard"
    /\ UNCHANGED <<loading, error, success, loginData, feePayment,
                   studentSearchId, studentDetails, feeSummary,
                   summaryStudentId, summaryYearId, transactionHistory,
                   historyStartDate, historyEndDate, newUser, inflight, sent,
                   accepted, limit, transactions, users>>

-----------------------------------------------------------------------------
(* The finance service, from the specification's contracts: it answers     *)
(* one request with one response and may record a transaction or a user.   *)

Students == {1}
StudentRecord(id) ==
    [student_id |-> id, admission_number |-> "ADM-001",
     full_name |-> "Student One", status |-> "Active",
     admission_date |-> "2020-04-01"]
\* The fee schedules defined: (student, academic year) and the fees due.
FeeSchedules == {[student_id |-> 1, year_id |-> 2024, total_fees_due |-> 50]}
AcademicYearLabel(y) == IF y = 2024 THEN "2024-25" ELSE "unknown"

\* Days since some epoch, to compare dates.
DayOf(d) ==
    CASE d = "2024-06-01" -> 1
      [] d = "2024-06-02" -> 2
      [] OTHER -> 0

\* Section 4.2: one Transaction of type "Fee Payment" per accepted
\* submission, with a fresh transaction id.
NewTransaction(txs, body, auth) ==
    [transaction_id |-> Len(txs) + 1, transaction_type |-> "Fee Payment",
     amount |-> body.amount, transaction_date |-> body.transaction_date,
     description |-> body.description, student_id |-> body.student_id,
     year_id |-> body.year_id, recorded_by |-> auth]

RecordTransaction(txs, body, auth) ==
    Append(txs, NewTransaction(txs, body, auth))

\* Section 3: total amount paid is the sum of the matching transactions.
RECURSIVE TotalAmountPaid(_, _, _)
TotalAmountPaid(txs, s, y) ==
    IF txs = <<>> THEN 0
    ELSE (IF /\ Head(txs).transaction_type = "Fee Payment"
             /\ Head(txs).student_id = s
             /\ Head(txs).year_id = y
          THEN Head(txs).amount ELSE 0)
         + TotalAmountPaid(Tail(txs), s, y)

\* Section 3 and 4.4: the fee summary of a (student, year) with a schedule.
FeeSummaryOf(txs, sch) ==
    LET paid == TotalAmountPaid(txs, sch.student_id, sch.year_id) IN
    [student_details |-> StudentRecord(sch.student_id),
     academic_year |-> AcademicYearLabel(sch.year_id),
     total_fees_due |-> sch.total_fees_due,
     total_amount_paid |-> paid,
     pending_fees |-> sch.total_fees_due - paid]

\* Section 4.5: the transactions dated within [start, end], both inclusive.
RECURSIVE HistoryOf(_, _, _)
HistoryOf(txs, start, end) ==
    IF txs = <<>> THEN <<>>
    ELSE (IF /\ DayOf(start) <= DayOf(Head(txs).transaction_date)
             /\ DayOf(Head(txs).transaction_date) <= DayOf(end)
          THEN <<Head(txs)>> ELSE <<>>)
         \o HistoryOf(Tail(txs), start, end)

\* The detail string of the service's own error for each operation.
ErrorDetail(op) ==
    CASE op = "login" -> "Incorrect username or password"
      [] op = "signup" -> "Username already registered"
      [] OTHER -> "Not found"

Ok(data) == [kind |-> "ok", data |-> data]
HttpError(d) == [kind |-> "error", data |-> [detail |-> d]]
FetchRejected == [kind |-> "reject", data |-> [detail |-> JUndefined]]
BadJson == [kind |-> "badjson", data |-> [detail |-> JUndefined]]

\* What can go wrong with any request: a non-2xx response whose detail is
\* a string, a list of validation errors or missing; a fetch that rejects;
\* a body that is not JSON.
Failures(op) ==
    {HttpError(JStr(ErrorDetail(op))), HttpError(JValidationErrors),
     HttpError(JUndefined), FetchRejected, BadJson}

\* The 2xx responses the service can give to request r.
Successes(r) ==
    CASE r.op = "login" ->
            {Ok([access_token |-> JStr(t)]) : t \in Tokens}
            \cup {Ok([access_token |-> JUndefined])}
      [] r.op = "fee-payment" ->
            IF r.payload.student_id \in Students
            THEN {Ok(NewTransaction(transactions, r.payload, r.auth))}
            ELSE {}
      [] r.op = "details" ->
            {Ok(StudentRecord(s)) :
                s \in {x \in Students : x = ParseNumber(r.payload.id)}}
      [] r.op = "summary" ->
            {Ok(FeeSummaryOf(transactions, sch)) :
                sch \in {x \in FeeSchedules :
                    /\ x.student_id = ParseNumber(r.payload.student_id)
                    /\ x.year_id = ParseNumber(r.payload.year_id)}}
      [] r.op = "history" ->
            {Ok(HistoryOf(transactions, r.payload.start_date,
                          r.payload.end_date))}
      [] r.op = "signup" ->
            IF r.payload.username \in Usernames(users) THEN {}
            ELSE {Ok([username |-> r.payload.username])}

\* The service handles request r and its response (or the failure of the
\* transport) reaches the client.
Deliver(r) ==
    /\ r \in inflight
    /\ r.stage = "sent"
    /\ \E resp \in Successes(r) \cup Failures(r.op) :
        /\ inflight' = (inflight \ {r})
                         \cup {[r EXCEPT !.stage = "delivered", !.resp = resp]}
        /\ transactions' =
              IF r.op = "fee-payment" /\ resp.kind = "ok"
              THEN RecordTransaction(transactions, r.payload, r.auth)
              ELSE transactions
        /\ users' =
              IF r.op = "signup" /\ resp.kind = "ok"
              THEN Append(users, UserRecord(users, r.payload))
              ELSE users
    /\ UNCHANGED <<token, user, activeTab, loading, error, success,
                   loginData, feePayment, studentSearchId, studentDetails,
                   feeSummary, summaryStudentId, summaryYearId,
                   transactionHistory, historyStartDate, historyEndDate,
                   newUser, localStorage, sent, accepted, limit>>

-----------------------------------------------------------------------------
(* The handlers.  An exception thrown inside a handler's try block is the  *)
(* message its catch block receives.                                       *)

NoThrow == "<no exception>"
FetchFailedMessage == "Failed to fetch"
JsonErrorMessage == "Unexpected token < in JSON at position 0"

\* new Error(data.detail || fallback).message
ErrorOf(detail, fallback) ==
    IF Truthy(detail) THEN JsString(detail) ELSE fallback

\* What `await fetch(...)`, `await response.json()` and the check of
\* response.ok throw for a delivered response, or NoThrow.
Thrown(resp, fallback) ==
    CASE resp.kind = "reject" -> FetchFailedMessage
      [] resp.kind = "badjson" -> JsonErrorMessage
      [] resp.kind = "error" -> ErrorOf(resp.data.detail, fallback)
      [] OTHER -> NoThrow

\* A catch block that drops the exception.
SwallowError(message, current) == current

\* catch (err) { setError(err.message) }: the error message held afterwards.
CatchError(message, current) == message

\* A handler without its finally block.
KeepLoading == loading

\* finally { setLoading(false) }
FinallyLoading == FALSE

\* A lookup that starts without clearing the previous record.
KeptStudentDetails == studentDetails

\* setStudentDetails(null) and setFeeSummary(null) before the request.
ClearedStudentDetails == JNull
ClearedFeeSummary == JNull

\* A client that never shows a negative pending amount.
ClampedFeeSummary(data) ==
    [data EXCEPT !.pending_fees = IF @ < 0 THEN 0 ELSE @]

\* setFeeSummary(data); the three totals are rendered as held.
SetFeeSummary(data) == data
DisplayedTotals(fs) ==
    [total_fees_due |-> fs.total_fees_due,
     total_amount_paid |-> fs.total_amount_paid,
     pending_fees |-> fs.pending_fees]

\* A login that keeps the token it had.
StaleToken(data) == token

\* setToken(data.access_token)
LoginToken(data) == data.access_token

\* handleLogin up to `await fetch`: the form is posted without headers.
HandleLogin ==
    /\ LoginView
    /\ SubmitEnabled
    /\ LoginFormValid
    /\ sent < limit
    /\ loading' = TRUE
    /\ error' = ""
    /\ Fetch(Request("login", NoAuth, loginData))
    /\ accepted' = accepted + 1
    /\ UNCHANGED <<token, user, activeTab, success, loginData, feePayment,
                   studentSearchId, studentDetails, feeSummary,
                   summaryStudentId, summaryYearId, transactionHistory,
                   historyStartDate, historyEndDate, newUser, localStorage,
                   limit, transactions, users>>

\* handleLogin after the response: the token and the user are kept and
\* stored; the effect on [token] runs when the token has changed.
HandleLoginResume(r) ==
    /\ r \in inflight
    /\ r.op = "login"
    /\ r.stage = "delivered"
    /\ LET thrown == Thrown(r.resp, "Login failed") IN
       IF thrown = NoThrow
       THEN  LET tok == LoginToken(r.resp.data)
                 userInfo == [username |-> r.payload.username]
                 stored == [token |-> JsString(tok),
                            user |-> JsonStringify(userInfo)]
                 m == IF tok = token THEN <<tok, userInfo, stored>>
                      ELSE FetchUserInfo(tok, userInfo, stored)
             IN  /\ token' = m[1]
                 /\ user' = m[2]
                 /\ localStorage' = m[3]
                 /\ success' = "Login successful!"
                 /\ error' = error
       ELSE  /\ error' = CatchError(thrown, error)
             /\ UNCHANGED <<token, user, localStorage, success, limit>>
    /\ loading' = FinallyLoading
    /\ inflight' = inflight \ {r}
    /\ UNCHANGED <<activeTab, loginData, feePayment, studentSearchId,
                   studentDetails, feeSummary, summaryStudentId,
                   summaryYearId, transactionHistory, historyStartDate,
                   historyEndDate, newUser, sent, accepted, limit, transactions,
                   users>>

\* handleFeePayment up to `await fetch`.
HandleFeePayment ==
    /\ AuthView
    /\ activeTab = "fee-payment"
    /\ SubmitEnabled
    /\ FeePaymentFormValid
    /\ sent < limit
    /\ loading' = TRUE
    /\ error' = ""
    /\ success' = ""
    /\ Fetch(ApiCall("fee-payment", FeePaymentBody(feePayment)))
    /\ accepted' = accepted + 1
    /\ UNCHANGED <<token, user, activeTab, loginData, feePayment,
                   studentSearchId, studentDetails, feeSummary,
                   summaryStudentId, summaryYearId, transactionHistory,
                   historyStartDate, historyEndDate, newUser, localStorage,
                   limit, transactions, users>>

\* handleFeePayment after the response: the form is reset on success.
HandleFeePaymentResume(r) ==
    /\ r \in inflight
    /\ r.op = "fee-payment"
    /\ r.stage = "delivered"
    /\ LET thrown == Thrown(r.resp, "An error occurred") IN
       IF thrown = NoThrow
       THEN
             /\ success' = "Fee payment recorded successfully!"
             /\ feePayment' = BlankFeePayment
             /\ error' = error
       ELSE  /\ error' = CatchError(thrown, error)
             /\ UNCHANGED <<success, feePayment, limit>>
    /\ loading' = FinallyLoading
    /\ inflight' = inflight \ {r}
    /\ UNCHANGED <<token, user, activeTab, loginData, studentSearchId,
                   studentDetails, feeSummary, summaryStudentId,
                   summaryYearId, transactionHistory, historyStartDate,
                   historyEndDate, newUser, localStorage, sent, accepted,
                   limit, transactions, users>>

\* fetchStudentDetails up to `await fetch`; it returns at once when the
\* search id is empty, and its button is disabled then.
FetchStudentDetails ==
    /\ AuthView
    /\ activeTab = "student-details"
    /\ SubmitEnabled
    /\ studentSearchId # ""
    /\ sent < limit
    /\ loading' = TRUE
    /\ error' = ""
    /\ studentDetails' = ClearedStudentDetails
    /\ Fetch(ApiCall("details", [id |-> studentSearchId]))
    /\ accepted' = accepted + 1
    /\ UNCHANGED <<token, user, activeTab, success, loginData, feePayment,
                   studentSearchId, feeSummary, summaryStudentId,
                   summaryYearId, transactionHistory, historyStartDate,
                   historyEndDate, newUser, localStorage, limit, transactions,
                   users>>

\* fetchStudentDetails after the response.
FetchStudentDetailsResume(r) ==
    /\ r \in inflight
    /\ r.op = "details"
    /\ r.stage = "delivered"
    /\ LET thrown == Thrown(r.resp, "An error occurred") IN
       IF thrown = NoThrow
       THEN
             /\ studentDetails' = r.resp.data
             /\ error' = error
       ELSE  /\ error' = CatchError(thrown, error)
             /\ UNCHANGED <<studentDetails, limit>>
    /\ loading' = FinallyLoading
    /\ inflight' = inflight \ {r}
    /\ UNCHANGED <<token, user, activeTab, success, loginData, feePayment,
                   studentSearchId, feeSummary, summaryStudentId,
                   summaryYearId, transactionHistory, historyStartDate,
                   historyEndDate, newUser, localStorage, sent, accepted,
                   limit, transactions, users>>

\* fetchFeeSummary up to `await fetch`; it returns at once when an id is
\* empty, and its button is disabled then.
FetchFeeSummary ==
    /\ AuthView
    /\ activeTab = "fee-summary"
    /\ SubmitEnabled
    /\ summaryStudentId # ""
    /\ summaryYearId # ""
    /\ sent < limit
    /\ loading' = TRUE
    /\ error' = ""
    /\ feeSummary' = ClearedFeeSummary
    /\ Fetch(ApiCall("summary", [student_id |-> summaryStudentId,
                                  year_id |-> summaryYearId]))
    /\ accepted' = accepted + 1
    /\ UNCHANGED <<token, user, activeTab, success, loginData, feePayment,
                   studentSearchId, studentDetails, summaryStudentId,
                   summaryYearId, transactionHistory, historyStartDate,
                   historyEndDate, newUser, localStorage, limit, transactions,
                   users>>

\* fetchFeeSummary after the response.
FetchFeeSummaryResume(r) ==
    /\ r \in inflight
    /\ r.op = "summary"
    /\ r.stage = "delivered"
    /\ LET thrown == Thrown(r.resp, "An error occurred") IN
       IF thrown = NoThrow
       THEN
             /\ feeSummary' = SetFeeSummary(r.resp.data)
             /\ error' = error
       ELSE  /\ error' = CatchError(thrown, error)
             /\ UNCHANGED <<feeSummary, limit>>
    /\ loading' = FinallyLoading
    /\ inflight' = inflight \ {r}
    /\ UNCHANGED <<token, user, activeTab, success, loginData, feePayment,
                   studentSearchId, studentDetails, summaryStudentId,
                   summaryYearId, transactionHistory, historyStartDate,
                   historyEndDate, newUser, localStorage, sent, accepted,
                   limit, transactions, users>>

\* fetchTransactionHistory up to `await fetch`.
\* The query string of fetchTransactionHistory:
\* ?start_date=${historyStartDate}&end_date=${historyEndDate}.
HistoryQuerySwapped(start, end) == [start_date |-> end, end_date |-> start]
HistoryQuery(start, end) == [start_date |-> start, end_date |-> end]

FetchTransactionHistory ==
    /\ AuthView
    /\ activeTab = "transactions"
    /\ SubmitEnabled
    /\ sent < limit
    /\ loading' = TRUE
    /\ error' = ""
    /\ Fetch(ApiCall("history",
                     HistoryQuery(historyStartDate, historyEndDate)))
    /\ accepted' = accepted + 1
    /\ UNCHANGED <<token, user, activeTab, success, loginData, feePayment,
                   studentSearchId, studentDetails, feeSummary,
                   summaryStudentId, summaryYearId, transactionHistory,
                   historyStartDate, historyEndDate, newUser, localStorage,
                   limit, transactions, users>>

\* fetchTransactionHistory after the response.
FetchTransactionHistoryResume(r) ==
    /\ r \in inflight
    /\ r.op = "history"
    /\ r.stage = "delivered"
    /\ LET thrown == Thrown(r.resp, "An error occurred") IN
       IF thrown = NoThrow
       THEN
             /\ transactionHistory' = r.resp.data
             /\ error' = error
       ELSE  /\ error' = CatchError(thrown, error)
             /\ UNCHANGED <<transactionHistory, limit>>
    /\ loading' = FinallyLoading
    /\ inflight' = inflight \ {r}
    /\ UNCHANGED <<token, user, activeTab, success, loginData, feePayment,
                   studentSearchId, studentDetails, feeSummary,
                   summaryStudentId, summaryYearId, historyStartDate,
                   historyEndDate, newUser, localStorage, sent, accepted,
                   limit, transactions, users>>

\* createUser resets the form after `await apiCall`, a statement that a
\* throw skips.
NewUserResetAlways(thrown, form) == BlankNewUser
NewUserAfter(thrown, form) ==
    IF thrown = NoThrow THEN BlankNewUser ELSE form

\* createUser up to `await fetch`.
CreateUser ==
    /\ AuthView
    /\ activeTab = "create-user"
    /\ SubmitEnabled
    /\ NewUserFormValid
    /\ sent < limit
    /\ loading' = TRUE
    /\ error' = ""
    /\ success' = ""
    /\ Fetch(ApiCall("signup", newUser))
    /\ accepted' = accepted + 1
    /\ UNCHANGED <<token, user, activeTab, loginData, feePayment,
                   studentSearchId, studentDetails, feeSummary,
                   summaryStudentId, summaryYearId, transactionHistory,
                   historyStartDate, historyEndDate, newUser, localStorage,
                   limit, transactions, users>>

\* createUser after the response: the form is reset on success.
CreateUserResume(r) ==
    /\ r \in inflight
    /\ r.op = "signup"
    /\ r.stage = "delivered"
    /\ LET thrown == Thrown(r.resp, "An error occurred") IN
       /\ newUser' = NewUserAfter(thrown, newUser)
       /\ IF thrown = NoThrow
          THEN
                /\ success' = "User created successfully!"
                /\ error' = error
          ELSE  /\ error' = CatchError(thrown, error)
                /\ UNCHANGED <<success, limit>>
    /\ loading' = FinallyLoading
    /\ inflight' = inflight \ {r}
    /\ UNCHANGED <<token, user, activeTab, loginData, feePayment,
                   studentSearchId, studentDetails, feeSummary,
                   summaryStudentId, summaryYearId, transactionHistory,
                   historyStartDate, historyEndDate, localStorage, sent,
                   accepted, limit, transactions, users>>

-----------------------------------------------------------------------------
Next ==
    \/ SetLoginData
    \/ SetFeePayment
    \/ SetStudentSearchId
    \/ SetSummaryStudentId
    \/ SetSummaryYearId
    \/ SetHistoryStartDate
    \/ SetHistoryEndDate
    \/ SetNewUser
    \/ SetActiveTab
    \/ HandleLogout
    \/ HandleLogin
    \/ HandleFeePayment
    \/ FetchStudentDetails
    \/ FetchFeeSummary
    \/ FetchTransactionHistory
    \/ CreateUser
    \/ \E r \in inflight : Deliver(r)
    \/ \E r \in inflight : HandleLoginResume(r)
    \/ \E r \in inflight : HandleFeePaymentResume(r)
    \/ \E r \in inflight : FetchStudentDetailsResume(r)
    \/ \E r \in inflight : FetchFeeSummaryResume(r)
    \/ \E r \in inflight : FetchTransactionHistoryResume(r)
    \/ \E r \in inflight : CreateUserResume(r)

Spec == Init /\ [][Next]_vars

\* The same client against a service that already holds transactions.
SeededSpec == SeededInit /\ [][Next]_vars
HistorySpec == HistoryInit /\ [][Next]_vars

\* Every request issued is answered (or its transport fails), and a
\* continuation whose promise has settled is run by the event loop.
Fairness ==
    /\ WF_vars(\E r \in inflight : Deliver(r))
    /\ WF_vars(\E r \in inflight : HandleLoginResume(r))
    /\ WF_vars(\E r \in inflight : HandleFeePaymentResume(r))
    /\ WF_vars(\E r \in inflight : FetchStudentDetailsResume(r))
    /\ WF_vars(\E r \in inflight : FetchFeeSummaryResume(r))
    /\ WF_vars(\E r \in inflight : FetchTransactionHistoryResume(r))
    /\ WF_vars(\E r \in inflight : CreateUserResume(r))

LiveSpec == LiveInit /\ [][Next]_vars /\ Fairness

-----------------------------------------------------------------------------
(* Properties.                                                             *)

\* The handler of request r runs its continuation in this step.
Resumed(r) == r \in inflight /\ r.stage = "delivered" /\ r \notin inflight'
\* Request r is issued in this step.
Issued(r) == r \in inflight' /\ r \notin inflight /\ r.stage = "sent"
\* The response delivered for r is a transport failure.
TransportFailure(r) == r.resp.kind \in {"reject", "badjson"}

\* C1: at most one request is outstanding, and loading is true exactly
\* when one is; logout and tab switches stay possible meanwhile.
OneRequestAtATime ==
    /\ Cardinality(inflight) <= 1
    /\ loading <=> inflight # {}

\* A fee payment is outstanding while the user has moved to another tab.
OneRequestAtATimeWitness ==
    /\ loading
    /\ \E r \in inflight : r.op = "fee-payment"
    /\ activeTab = "student-details"

\* C2: a 2xx login response leaves its access_token as the token, in
\* memory and in storage, and the submitted username as the user; a non-2xx
\* response leaves token and storage as they were and an error message:
\* the detail, or 'Login failed' when there is none.
LoginOutcome ==
    [][\A r \in inflight :
          (Resumed(r) /\ r.op = "login") =>
            /\ r.resp.kind = "ok" =>
                 /\ token' = r.resp.data.access_token
                 /\ localStorage'.token = JsString(r.resp.data.access_token)
                 /\ (r.resp.data.access_token.t = "string"
                       => GetItem(localStorage', "token") = token')
                 /\ user' = [username |-> r.payload.username]
            /\ r.resp.kind = "error" =>
                 /\ token' = token
                 /\ localStorage' = localStorage
                 /\ error' # ""
                 /\ (r.resp.data.detail.t = "string"
                       => error' = r.resp.data.detail.v)
                 /\ (r.resp.data.detail = JUndefined
                       => error' = "Login failed")]_vars

\* A login answered with tokB has completed, after the user cleared the
\* login form while the request was outstanding.
LoginOutcomeWitness ==
    /\ token = JStr("tokB")
    /\ localStorage.token = "tokB"
    /\ user = [username |-> "admin"]
    /\ loginData = BlankLogin
    /\ success = "Login successful!"
    /\ inflight = {}

\* C3: a request to any endpoint but /login is issued only while the
\* client holds a non-empty token and carries 'Bearer <that token>'; the
\* /login request carries no Authorization header.
BearerOnEveryCall ==
    [][\A r \in inflight' :
          Issued(r) =>
            IF r.op = "login" THEN r.auth = NoAuth
            ELSE /\ Truthy(token)
                 /\ JsString(token) # ""
                 /\ r.auth = "Bearer " \o JsString(token)]_vars

\* A signup request goes out under the token of a login made in this run.
BearerOnEveryCallWitness ==
    \E r \in inflight :
        r.op = "signup" /\ r.auth = "Bearer tokB" /\ token = JStr("tokB")

\* C4: after a non-2xx response with detail d, the error message is d.
DetailVerbatim ==
    [][\A r \in inflight :
          (Resumed(r) /\ r.resp.kind = "error"
                      /\ r.resp.data.detail # JUndefined)
            => JStr(error') = r.resp.data.detail]_vars

\* C5: a transport failure ends the handler with its message as the error
\* message, loading false, and nothing else changed: no success message,
\* no session, no result.
TransportFailureCaught ==
    [][\A r \in inflight :
          (Resumed(r) /\ TransportFailure(r)) =>
            /\ error' = (IF r.resp.kind = "reject" THEN FetchFailedMessage
                         ELSE JsonErrorMessage)
            /\ success' = success
            /\ loading' = FALSE
            /\ inflight' = inflight \ {r}
            /\ UNCHANGED <<token, user, localStorage, studentDetails,
                           feeSummary, transactionHistory, feePayment,
                           newUser>>]_vars

\* A create-user request has failed in transport.
TransportFailureCaughtWitness ==
    /\ error = JsonErrorMessage
    /\ ~loading
    /\ inflight = {}
    /\ activeTab = "create-user"
    /\ newUser.username = "bob"
    /\ success = ""

\* C6: the requests sent are as many as the user actions that passed
\* their guard; no request is outstanding that no action issued.
OneRequestPerAction ==
    /\ sent = accepted
    /\ \A r \in inflight : r.id <= accepted

\* Two actions, two requests, the second failed, nothing outstanding.
OneRequestPerActionWitness ==
    /\ sent = 2
    /\ accepted = 2
    /\ error = "An error occurred"
    /\ inflight = {}

\* C7: with every request answered, loading always returns to false.
EventuallyNotLoading == loading ~> ~loading

\* A request issued before a logout has completed after it.
EventuallyNotLoadingWitness ==
    /\ ~loading
    /\ sent = 1
    /\ inflight = {}
    /\ token = JNull
    /\ success = "Fee payment recorded successfully!"

\* The ids of the recorded transactions.
TransactionIds(txs) == {txs[i].transaction_id : i \in 1..Len(txs)}

\* C8: every accepted fee-payment POST adds one transaction with an id no
\* earlier transaction has, whatever was recorded before; the body posted
\* has the form's fields and no other.
FeePaymentNotIdempotent ==
    /\ [](/\ \A r \in inflight :
                r.op = "fee-payment"
                  => DOMAIN r.payload = DOMAIN BlankFeePayment
          /\ Cardinality(TransactionIds(transactions)) = Len(transactions))
    /\ [][\A r \in inflight :
            (/\ r.op = "fee-payment"
             /\ r.stage = "sent"
             /\ \E d \in inflight' :
                   d.id = r.id /\ d.stage = "delivered" /\ d.resp.kind = "ok")
              => /\ Len(transactions') = Len(transactions) + 1
                 /\ SubSeq(transactions', 1, Len(transactions)) = transactions
                 /\ LET new == transactions'[Len(transactions')] IN
                      /\ new.transaction_id \notin TransactionIds(transactions)
                      /\ new.amount = r.payload.amount
                      /\ new.student_id = r.payload.student_id
                      /\ new.year_id = r.payload.year_id
                      /\ new.transaction_date = r.payload.transaction_date]_vars

\* The same payload was posted twice and is recorded twice.
FeePaymentNotIdempotentWitness ==
    /\ Len(transactions) = 2
    /\ transactions[1].transaction_id # transactions[2].transaction_id
    /\ [transactions[1] EXCEPT !.transaction_id = 0]
         = [transactions[2] EXCEPT !.transaction_id = 0]

FailedLookupShowsNothing ==
    [][\A r \in inflight :
          (Resumed(r) /\ r.resp.kind # "ok") =>
            /\ r.op = "details" => (studentDetails' = JNull /\ error' # "")
            /\ r.op = "summary" => (feeSummary' = JNull /\ error' # "")]_vars

\* The second of two lookups has failed.
FailedLookupShowsNothingWitness ==
    /\ studentDetails = JNull
    /\ error = "Not found"
    /\ sent = 2
    /\ inflight = {}
    /\ activeTab = "student-details"
    /\ transactions = <<>>

\* The service handles request r in this step.
Delivered(r) ==
    /\ r \in inflight
    /\ r.stage = "sent"
    /\ [r EXCEPT !.stage = "delivered"] \in
          {[q EXCEPT !.resp = NoResponse] : q \in inflight'}
\* The response the service gives to r in this step.
ResponseTo(r) ==
    (CHOOSE q \in inflight' : q.id = r.id).resp

\* C11: a signup whose username is already registered is refused and the
\* service's users are left exactly as they were; createUser then ends
\* with an error message, without 'User created successfully!' and with
\* the new-user form as it was entered.
DuplicateSignupRefused ==
    [][\A r \in inflight :
          r.op = "signup" =>
            /\ (Delivered(r) /\ r.payload.username \in Usernames(users)) =>
                  /\ ResponseTo(r).kind # "ok"
                  /\ users' = users
            /\ (Resumed(r) /\ r.resp.kind # "ok") =>
                  /\ error' # ""
                  /\ success' = ""
                  /\ newUser' = newUser
                  /\ users' = users]_vars

\* "bob" was registered by a first signup; a second signup of "bob" has
\* been refused and the form still holds what was entered.
DuplicateSignupRefusedWitness ==
    /\ sent = 2
    /\ inflight = {}
    /\ Len(users) = 2
    /\ users[2].username = "bob"
    /\ error = "Username already registered"
    /\ success = ""
    /\ newUser.username = "bob"

\* Transaction t is dated within [start, end], both days included.
WithinRange(t, start, end) ==
    /\ DayOf(start) <= DayOf(t.transaction_date)
    /\ DayOf(t.transaction_date) <= DayOf(end)

\* C12: a history request carries the start and end dates the client holds
\* when it is issued, and a 2xx answer to it lists exactly the recorded
\* transactions dated from the start to the end date, both included, each
\* once; when the two dates are the same day, only that day's.
HistoryWithinRange ==
    [][/\ \A r \in inflight' :
            (Issued(r) /\ r.op = "history") =>
               /\ r.payload.start_date = historyStartDate
               /\ r.payload.end_date = historyEndDate
       /\ \A r \in inflight :
            (Delivered(r) /\ r.op = "history"
                /\ ResponseTo(r).kind = "ok") =>
               LET data == ResponseTo(r).data
                   start == r.payload.start_date
                   end == r.payload.end_date
               IN  /\ \A i \in DOMAIN transactions :
                         WithinRange(transactions[i], start, end)
                           <=> \E j \in DOMAIN data :
                                  data[j] = transactions[i]
                   /\ \A j \in DOMAIN data :
                         \E i \in DOMAIN transactions :
                            transactions[i] = data[j]
                   /\ \A j, k \in DOMAIN data :
                         data[j] = data[k] => j = k
                   /\ start = end =>
                         \A j \in DOMAIN data :
                            data[j].transaction_date = start]_vars

\* The service holds a transaction of 1 June and one of 2 June, and has
\* answered a query from 2 June to 2 June with the second alone.
HistoryWithinRangeWitness ==
    \E r \in inflight :
        /\ r.op = "history"
        /\ r.stage = "delivered"
        /\ r.resp.kind = "ok"
        /\ r.payload.start_date = "2024-06-02"
        /\ r.payload.end_date = "2024-06-02"
        /\ Len(transactions) = 2
        /\ transactions[1].transaction_date = "2024-06-01"
        /\ r.resp.data = <<transactions[2]>>

\* The session: the token and user in memory and the two stored entries.
Session == <<token, user, localStorage.token, localStorage.user>>
\* This step is a logout: the authenticated view gives way to the login view.
LogsOut == AuthView /\ ~AuthView'

\* C13: the session is written only by a login that got a 2xx response
\* and by logout, which clears all four parts; fee payment, student
\* lookup, fee summary, history, user creation (whatever their outcome,
\* a rejected token included), tab switches and form edits leave it as
\* it is.
SessionOnlyByLoginAndLogout ==
    [][/\ Session' # Session =>
            \/ \E r \in inflight :
                  Resumed(r) /\ r.op = "login" /\ r.resp.kind = "ok"
            \/ LogsOut
       /\ LogsOut =>
            /\ token' = JNull
            /\ user' = NoUser
            /\ localStorage'.token = Absent
            /\ localStorage'.user = Absent
       /\ \A r \in inflight :
            (Resumed(r) /\ r.op # "login") => Session' = Session]_vars

\* A login has set up the session of "admin" with token tokB, and a student
\* lookup made with it has then failed: the session is still there.
SessionOnlyByLoginAndLogoutWitness ==
    /\ sent = 2
    /\ inflight = {}
    /\ token = JStr("tokB")
    /\ user = [username |-> "admin"]
    /\ localStorage.token = "tokB"
    /\ localStorage.user = JsonStringify([username |-> "admin"])
    /\ activeTab = "student-details"
    /\ error = "Not found"

\* A request issued in the authenticated view is outstanding in the login
\* view: the user has logged out in the meantime.
OutstandingAfterLogout ==
    LoginView /\ \E r \in inflight : r.op # "login"

\* C14: after a logout with an authenticated request outstanding, token
\* and user are null and the stored entries absent; the late response
\* leaves them so; only a login answered with 2xx sets them again, and no
\* login request is issued while the late response is still awaited.
LateResponseAfterLogout ==
    /\ [](OutstandingAfterLogout =>
            /\ token = JNull
            /\ user = NoUser
            /\ localStorage.token = Absent
            /\ localStorage.user = Absent)
    /\ [][/\ \A r \in inflight :
               (OutstandingAfterLogout /\ Resumed(r)) =>
                  /\ Session' = Session
                  /\ LoginView'
          /\ (LoginView /\ Session' # Session) =>
                \E r \in inflight :
                   Resumed(r) /\ r.op = "login" /\ r.resp.kind = "ok"
          /\ \A r \in inflight' :
               (Issued(r) /\ r.op = "login") => inflight = {}]_vars

\* The user has logged out during a student lookup and filled in the
\* login form; the student's record has arrived and waits for the
\* handler, the session is cleared and the login button is disabled.
LateResponseAfterLogoutWitness ==
    /\ LoginView
    /\ token = JNull
    /\ localStorage.token = Absent
    /\ localStorage.user = Absent
    /\ loading
    /\ LoginFormValid
    /\ \E r \in inflight :
          /\ r.op = "details"
          /\ r.stage = "delivered"
          /\ r.resp.kind = "ok"

\* C15, as stated: the token in memory is non-null exactly when storage
\* holds a 'token' entry, the two are then equal, and storage holds
\* 'token' exactly when it holds 'user'.
SessionMatchesStorage ==
    /\ token # JNull <=> localStorage.token # Absent
    /\ token # JNull => token = JStr(localStorage.token)
    /\ localStorage.token # Absent <=> localStorage.user # Absent

\* C15: whenever the token in memory is truthy, storage holds a 'token'
\* entry equal to it; and every step that writes the session (a login
\* answered with 2xx, a logout) leaves storage with both 'token' and
\* 'user' or with neither.
SessionBackedByStorage ==
    /\ [](Truthy(token) => token = JStr(localStorage.token))
    /\ [][Session' # Session =>
            (localStorage'.token # Absent <=> localStorage'.user # Absent)
       ]_vars

\* A login has been answered with tokB, which is now the token in memory
\* and in storage, next to the stored user.
SessionBackedByStorageWitness ==
    /\ sent = 1
    /\ inflight = {}
    /\ token = JStr("tokB")
    /\ localStorage.token = "tokB"
    /\ localStorage.user = JsonStringify([username |-> "admin"])
    /\ success = "Login successful!"

\* C16: at most one of the error and success messages is non-empty, so
\* the two banners are never shown together.
AtMostOneMessage == ~(error # "" /\ success # "")

\* C17: when fetchTransactionHistory has finished, the list held is the
\* response to that query: the transactions returned, or none when the
\* query failed.
HistoryOfLastQuery ==
    [][\A r \in inflight :
          (Resumed(r) /\ r.op = "history") =>
             transactionHistory' =
                IF r.resp.kind = "ok" THEN r.resp.data ELSE <<>>]_vars

\* C18: a logout leaves none of the data fetched or entered: the student
\* details, the fee summary, the transaction history, the two messages
\* and every form field are back at their initial values.
LogoutClearsData ==
    [][LogsOut =>
          /\ studentDetails' = JNull
          /\ feeSummary' = JNull
          /\ transactionHistory' = <<>>
          /\ error' = ""
          /\ success' = ""
          /\ loginData' = BlankLogin
          /\ feePayment' = BlankFeePayment
          /\ studentSearchId' = ""
          /\ summaryStudentId' = ""
          /\ summaryYearId' = ""
          /\ historyStartDate' = Today
          /\ historyEndDate' = Today
          /\ newUser' = BlankNewUser]_vars

====
